---- MODULE Spec2Model ----
(***************************************************************************)
(* Model of the usernet manifest engine (src/manifest/manifest.go):        *)
(* the manifest store with its cache and backing records, content-type     *)
(* negotiation, request-context matching with override merging, and lazy   *)
(* template compilation.                                                   *)
(*                                                                         *)
(* Strings are sequences of symbols, so that strings.Contains is a real    *)
(* subsequence search.  A json.RawMessage is a record                      *)
(*   [kind, fields, fmt]                                                   *)
(* kind   : "object" | "null" | "invalid" (not a JSON object: fails to     *)
(*          unmarshal into a map) | "empty" (a nil RawMessage: zero bytes) *)
(* fields : for an object, the function from its keys to its values        *)
(* fmt    : "authored" (the bytes as written in the record: whitespace,    *)
(*          key order) or "compact" (the bytes json.Marshal produces)      *)
(* A JSON value is [num |-> n] or [obj |-> nested fields].                 *)
(***************************************************************************)
EXTENDS Integers, Sequences, FiniteSets, TLC

\* ------------------------------------------------------------------ bounds
MaxNum == 4
MaxAccept == 2
MaxEntryLen == 2

\* ------------------------------------------------------------------ strings

\* strings.Contains(s, sub)
Contains(s, sub) ==
  \E i \in 0..(Len(s) - Len(sub)) : SubSeq(s, i + 1, i + Len(sub)) = sub

\* ------------------------------------------------------------------ JSON documents

Keys == {"a", "b", "c"}
NestedVals == { [obj |-> [k \in {"x"} |-> 1]], [obj |-> [k \in {"y"} |-> 2]] }
Vals == { [num |-> n] : n \in 1..MaxNum } \cup NestedVals
NoFields == [k \in {} |-> [num |-> 0]]
FieldMaps == UNION { [K -> Vals] : K \in SUBSET Keys }

RawObject(f, fm) == [kind |-> "object", fields |-> f, fmt |-> fm]
RawNull == [kind |-> "null", fields |-> NoFields, fmt |-> "compact"]
RawInvalid == [kind |-> "invalid", fields |-> NoFields, fmt |-> "authored"]
RawEmpty == [kind |-> "empty", fields |-> NoFields, fmt |-> "authored"]
RawDocs ==
  { RawObject(f, fm) : f \in FieldMaps, fm \in {"authored", "compact"} }
    \cup {RawNull, RawInvalid, RawEmpty}

\* json.Unmarshal(raw, &m) with m a nil map[string]interface{}:
\* an object gives a map, null leaves the map nil, anything else is an error
Unmarshal(raw) ==
  CASE raw.kind = "object" -> [err |-> FALSE, nil |-> FALSE, m |-> raw.fields]
    [] raw.kind = "null" -> [err |-> FALSE, nil |-> TRUE, m |-> NoFields]
    [] OTHER -> [err |-> TRUE, nil |-> TRUE, m |-> NoFields]

\* json.Marshal of a map[string]interface{}: keys sorted, compact; nil gives null
Marshal(isNil, m) == IF isNil THEN RawNull ELSE RawObject(m, "compact")

\* the outcome of a call returning (json.RawMessage, error)
Ok(raw) == [status |-> "ok", raw |-> raw]
Err == [status |-> "error", raw |-> RawEmpty]
Panic == [status |-> "panic", raw |-> RawEmpty]

\* a merge that descends into nested objects instead of replacing them
MergeMapsDeep(d, o) ==
  [k \in (DOMAIN d) \cup (DOMAIN o) |->
     IF k \notin DOMAIN o THEN d[k]
     ELSE IF k \in DOMAIN d /\ DOMAIN d[k] = {"obj"} /\ DOMAIN o[k] = {"obj"}
          THEN [obj |-> [x \in (DOMAIN d[k].obj) \cup (DOMAIN o[k].obj) |->
                           IF x \in DOMAIN o[k].obj THEN o[k].obj[x] ELSE d[k].obj[x]]]
          ELSE o[k]]

\* for k, v := range overrideMap { defaultMap[k] = v }
MergeMaps(d, o) ==
  [k \in (DOMAIN d) \cup (DOMAIN o) |-> IF k \in DOMAIN o THEN o[k] ELSE d[k]]

mergeResponses(defaultResp, overrideResp) ==
  LET d == Unmarshal(defaultResp)
      o == Unmarshal(overrideResp)
  IN  IF d.err \/ o.err THEN Err
      ELSE IF d.nil /\ DOMAIN o.m # {} THEN Panic  \* assignment to entry in nil map
      ELSE Ok(Marshal(d.nil, MergeMaps(d.m, o.m)))

\* ------------------------------------------------------------------ negotiation

MediaTokens == {"text/html", "text/plain", "application/json", "*/*"}
SeqsUpTo(S, n) == UNION { [1..k -> S] : k \in 0..n }
AcceptEntries == SeqsUpTo(MediaTokens, MaxEntryLen) \ {<<>>}
AcceptLists == SeqsUpTo(AcceptEntries, MaxAccept)

RECURSIVE ScanAccept(_, _)
ScanAccept(accept, i) ==
  IF i > Len(accept) THEN "application/json"
  ELSE IF Contains(accept[i], <<"text/html">>) THEN "text/html"
  ELSE IF Contains(accept[i], <<"text/plain">>) THEN "text/plain"
  ELSE IF Contains(accept[i], <<"application/json">>) THEN "application/json"
  ELSE ScanAccept(accept, i + 1)

\* the policy with html looked for in the whole list before plain
FixedOrderPolicy(accept) ==
  IF Len(accept) = 0 THEN "application/json"
  ELSE IF \E i \in 1..Len(accept) : Contains(accept[i], <<"text/html">>) THEN "text/html"
  ELSE IF \E i \in 1..Len(accept) : Contains(accept[i], <<"text/plain">>) THEN "text/plain"
  ELSE "application/json"

determineResponseType(accept) ==
  IF Len(accept) = 0 THEN "application/json" ELSE ScanAccept(accept, 1)

\* ------------------------------------------------------------------ matching

\* identity strings and identity patterns
Bot == <<"b", "o", "t">>
Bot2 == <<"b", "o", "t", "2">>
SomeBot2Crawler ==
  <<"s", "o", "m", "e", "b", "o", "t", "2", "c", "r", "a", "w", "l", "e", "r">>
Curl == <<"c", "u", "r", "l">>
US == <<"U", "S">>

Patterns == {<<>>, Bot, Bot2}
Identities == {<<>>, SomeBot2Crawler, Curl}
CountryKeys == {<<>>, US}

\* every order in which one range over a map with key set S can visit the keys
Perms(S) ==
  { q \in [1..Cardinality(S) -> S] :
      \A i, j \in 1..Cardinality(S) : i # j => q[i] # q[j] }

\* the keys of order that are substrings of ua; the loop merges the first and breaks
MatchingIndexes(order, ua) == { i \in 1..Len(order) : Contains(ua, order[i]) }
FirstIndex(S) == CHOOSE i \in S : \A j \in S : i <= j

\* lines 245-255: the country (locale) override
MergeCountry(manifest, ctx) ==
  IF ctx.Country # <<>> /\ ctx.Country \in DOMAIN manifest.CountryCases
  THEN mergeResponses(manifest.DefaultResponse, manifest.CountryCases[ctx.Country])
  ELSE Ok(manifest.DefaultResponse)

\* lines 257-270: the user-agent (identity) override, onto response
MergeUserAgent(manifest, ctx, order, response) ==
  IF ctx.UserAgent # <<>> /\ MatchingIndexes(order, ctx.UserAgent) # {}
  THEN mergeResponses(response,
         manifest.UserAgentCases[order[FirstIndex(MatchingIndexes(order, ctx.UserAgent))]])
  ELSE Ok(response)

\* the matcher without the guards on an empty identity and an empty country
matchRequestContextNoGuard(manifest, ctx, order) ==
  LET c == IF ctx.Country \in DOMAIN manifest.CountryCases
           THEN mergeResponses(manifest.DefaultResponse, manifest.CountryCases[ctx.Country])
           ELSE Ok(manifest.DefaultResponse)
  IN  IF c.status # "ok" THEN c
      ELSE IF MatchingIndexes(order, ctx.UserAgent) # {}
      THEN mergeResponses(c.raw,
             manifest.UserAgentCases[order[FirstIndex(MatchingIndexes(order, ctx.UserAgent))]])
      ELSE c

\* the matcher with the identity override merged before the country override
matchRequestContextIdentityFirst(manifest, ctx, order) ==
  LET u == MergeUserAgent(manifest, ctx, order, manifest.DefaultResponse)
  IN  IF u.status # "ok" THEN u
      ELSE IF ctx.Country # <<>> /\ ctx.Country \in DOMAIN manifest.CountryCases
      THEN mergeResponses(u.raw, manifest.CountryCases[ctx.Country])
      ELSE u

\* order is the order in which this call's range visits manifest.UserAgentCases
matchRequestContext(manifest, ctx, order) ==
  LET c == MergeCountry(manifest, ctx)
  IN  IF c.status # "ok" THEN c ELSE MergeUserAgent(manifest, ctx, order, c.raw)

\* ------------------------------------------------------------------ state

VARIABLES
  acceptIn,    \* negotiation: the accept list handed to determineResponseType
  typeOut,     \* negotiation: the content type it returned ("" before the call)
  mBase,       \* merge: the base document of a mergeResponses call
  mOver,       \* merge: the override document of the call
  mOut,        \* merge: the outcome of the call
  rsIn,        \* matching: the rule set (*ServiceManifest) being resolved
  uaAuthored,  \* matching: the order of the identity patterns in the authored record
  ctxIn,       \* matching: the request context
  res1,        \* matching: the outcome of the first resolution of (rsIn, ctxIn)
  res2         \* matching: the outcome of the second resolution of (rsIn, ctxIn)

VARIABLES
  files,       \* store: the backing record of each file name
  cache,       \* store: m.manifests, service name -> instance (0: no entry)
  heap,        \* the *ServiceManifest instances: their content and compiled slots
  lock,        \* m.mu: the writer holding it (0: none) and the number of readers
  pc,          \* each caller's position in the call it is making
  op,          \* the call: "load", "update" or "render"
  svc,         \* the call's serviceURL
  ctx,         \* the call's *RequestContext
  man,         \* the call's manifest pointer (0: nil)
  loc,         \* GetResponseForRequest's locals: rawResponse, i, tmplCopy
  ret,         \* what the call returned
  calls,       \* the number of calls started
  lastUpd,     \* history: the instance of the last successful update of a service
  cachedVer,   \* history: the content the cached instance had when it was cached
  prevVer,     \* history: cachedVer just before the last successful update
  stale,       \* history: the call started before the last successful update of its record
  peers,       \* history: the callers whose present call was running when this call started
  updVer       \* history: the content of the rule set of the last successful update

VARIABLES
  http         \* boundary: the HTTP response written for each caller's request

pureVars == <<acceptIn, typeOut, mBase, mOver, mOut, rsIn, uaAuthored, ctxIn, res1, res2>>
storeVars == <<files, cache, heap, lock, pc, op, svc, ctx, man, loc, ret, calls,
               lastUpd, cachedVer, prevVer, stale, peers, updVer>>
edgeVars == <<http>>
vars == <<pureVars, storeVars, edgeVars>>

NoResult == [status |-> "none", raw |-> RawEmpty]

\* documents the rule sets of the matching runs are made of
DocAB == RawObject([k \in {"a", "b"} |-> IF k = "a" THEN [num |-> 1] ELSE [num |-> 2]], "authored")
DocBC == RawObject([k \in {"b", "c"} |-> IF k = "b" THEN [num |-> 3] ELSE [num |-> 4]], "authored")
MatchDocs == {DocAB, DocBC, RawNull, RawInvalid}

MapsInto(Ks, D) == UNION { [K -> D] : K \in SUBSET Ks }
NoTemplates == <<>>
EmptyContext == [UserAgent |-> <<>>, AcceptTypes |-> <<>>, PreferredType |-> "", Country |-> <<>>]
EmptyManifest ==
  [DefaultResponse |-> RawEmpty, UserAgentCases |-> [k \in {} |-> RawEmpty],
   CountryCases |-> [k \in {} |-> RawEmpty], Templates |-> NoTemplates]

NegotiateIdle == acceptIn = <<>> /\ typeOut = ""
MergeIdle == mBase = RawEmpty /\ mOver = RawEmpty /\ mOut = NoResult
MatchIdle ==
  /\ rsIn = EmptyManifest /\ uaAuthored = <<>> /\ ctxIn = EmptyContext
  /\ res1 = NoResult /\ res2 = NoResult

\* ------------------------------------------------------------------ the manifest store

NumProcs == 3
MaxCalls == 3
NumVersions == 2

Procs == 1..NumProcs
Versions == 1..NumVersions

\* service names: two that sanitizeFilename maps to one record, and another
SvcA == <<"a">>
SvcHttpA == <<"h", "t", "t", "p", ":", "/", "/", "a">>
SvcB == <<"b">>
Services == {SvcA, SvcHttpA, SvcB}
\* the name the callers of Spec ask for
OneName == {SvcHttpA}

\* strings.TrimPrefix and strings.ReplaceAll (of one symbol)
TrimPrefix(str, prefix) ==
  IF Len(str) >= Len(prefix) /\ SubSeq(str, 1, Len(prefix)) = prefix
  THEN SubSeq(str, Len(prefix) + 1, Len(str)) ELSE str
ReplaceAll(str, old, new) == [i \in 1..Len(str) |-> IF str[i] = old THEN new ELSE str[i]]

sanitizeFilename(serviceURL) ==
  ReplaceAll(
    ReplaceAll(
      TrimPrefix(TrimPrefix(serviceURL, <<"h", "t", "t", "p", "s", ":", "/", "/">>),
                 <<"h", "t", "t", "p", ":", "/", "/">>),
      "/", "_"),
    ":", "_")

\* manifestPath: basePath/sanitizeFilename(serviceURL).json
FileNames == { sanitizeFilename(sv) : sv \in Services }

\* a backing record: absent, not parseable as a rule set, or the record of a version
Absent == [kind |-> "absent", ver |-> 0]
Malformed == [kind |-> "malformed", ver |-> 0]
Record(v) == [kind |-> "record", ver |-> v]

\* the rule sets: version 0 is the one LoadManifest synthesizes for an absent
\* record; the others are the contents of records and of updates.  The
\* template source of version v is v.  A field the JSON of a record lacks is
\* left at its zero value by json.Unmarshal: a nil RawMessage.
HtmlTemplate(v) == [ContentType |-> "text/html", Template |-> v]
\* the rule set whose JSON has no default_response field: not one of Versions
NoDefault == NumVersions + 1
\* the rule set whose JSON has "default_response": null
NullDefault == NumVersions + 2
ManifestOf(v) ==
  IF v \in {NoDefault, NullDefault}
  THEN [DefaultResponse |-> IF v = NoDefault THEN RawEmpty ELSE RawNull,
        UserAgentCases |-> [k \in {} |-> RawEmpty],
        CountryCases |-> [k \in {} |-> RawEmpty],
        Templates |-> NoTemplates]
  ELSE IF v = 0
  THEN [DefaultResponse |->
          RawObject([k \in {"message"} |-> [str |-> "No manifest available for this service"]],
                    "authored"),
        UserAgentCases |-> [k \in {} |-> RawEmpty],
        CountryCases |-> [k \in {} |-> RawEmpty],
        Templates |-> NoTemplates]
  ELSE IF v = 1
  THEN [DefaultResponse |-> DocAB,
        UserAgentCases |-> [k \in {Bot} |-> DocBC],
        CountryCases |-> [k \in {} |-> RawEmpty],
        Templates |-> <<HtmlTemplate(1)>>]
  ELSE [DefaultResponse |-> DocBC,
        UserAgentCases |-> [k \in {Bot, Bot2} |-> IF k = Bot THEN DocAB ELSE RawInvalid],
        CountryCases |-> [k \in {US} |-> DocAB],
        Templates |-> <<HtmlTemplate(v)>>]

\* json.MarshalIndent of a rule set, read back by json.Unmarshal: a nil
\* RawMessage is written as null
Persisted(v) == IF v = NoDefault THEN NullDefault ELSE v

\* the request contexts of the callers
CtxJson == EmptyContext
CtxHtml == [EmptyContext EXCEPT !.UserAgent = Curl, !.AcceptTypes = <<<<"text/html">>>>]
CtxBotPlain ==
  [EmptyContext EXCEPT !.UserAgent = SomeBot2Crawler, !.AcceptTypes = <<<<"text/plain">>>>]
Contexts == {CtxJson, CtxHtml, CtxBotPlain}

\* instances: enough for every pointer the callers, the cache and the history hold
InstIds == 1..(NumProcs + 2 * Cardinality(Services))
FreeCell == [ver |-> 0, compiled |-> <<>>]
NewCell(v) == [ver |-> v, compiled |-> [i \in 1..Len(ManifestOf(v).Templates) |-> 0]]

Range(f) == { f[x] : x \in DOMAIN f }
Refs(c, m, lu) == (Range(c) \cup Range(m) \cup Range(lu)) \ {0}
\* the garbage collector: an instance nothing points to is gone
Gc(h, c, m, lu) == [i \in InstIds |-> IF i \in Refs(c, m, lu) THEN h[i] ELSE FreeCell]
\* &ServiceManifest{...}: a new instance
Alloc(c, m, lu) == CHOOSE i \in InstIds \ Refs(c, m, lu) : \A j \in InstIds \ Refs(c, m, lu) : i <= j

NoLocals == [raw |-> RawEmpty, i |-> 0, src |-> 0]
NoReturn == [status |-> "none", how |-> "", ver |-> 0, ctype |-> "", raw |-> RawEmpty,
             exec |-> 0, fresh |-> FALSE]
Returned(st, how, ctype, raw, exec, fresh) ==
  [status |-> st, how |-> how, ver |-> 0, ctype |-> ctype, raw |-> raw, exec |-> exec,
   fresh |-> fresh]

\* what http.ResponseWriter has been given: the status code, the Content-Type
\* header, and the body: the text or the document written first, then what the
\* caller of the handler wrote after it
NoResponse == [code |-> 0, ctype |-> "", text |-> "", doc |-> RawEmpty, tail |-> ""]

StoreInit ==
  /\ files = [f \in FileNames |-> Absent]
  /\ cache = [sv \in Services |-> 0]
  /\ heap = [i \in InstIds |-> FreeCell]
  /\ lock = [writer |-> 0, readers |-> 0]
  /\ pc = [p \in Procs |-> "idle"]
  /\ op = [p \in Procs |-> ""]
  /\ svc = [p \in Procs |-> SvcHttpA]
  /\ ctx = [p \in Procs |-> EmptyContext]
  /\ man = [p \in Procs |-> 0]
  /\ loc = [p \in Procs |-> NoLocals]
  /\ ret = [p \in Procs |-> NoReturn]
  /\ calls = 0
  /\ lastUpd = [sv \in Services |-> 0]
  /\ cachedVer = [sv \in Services |-> 0]
  /\ prevVer = [sv \in Services |-> 0]
  /\ stale = [p \in Procs |-> FALSE]
  /\ peers = [p \in Procs |-> {}]
  /\ updVer = [sv \in Services |-> 0]
  /\ http = [p \in Procs |-> NoResponse]

Init == StoreInit /\ NegotiateIdle /\ MergeIdle /\ MatchIdle

LockFree == lock.writer = 0 /\ lock.readers = 0
\* the callers are interchangeable: the one with the lowest number that has
\* made no call yet is the one to make its first call
CanCall(p) ==
  /\ pc[p] \in {"idle", "done"}
  /\ calls < MaxCalls
  /\ \A q \in Procs : q < p => pc[q] # "idle"

\* a record is authored out of band, where there was none
ExternalWrite(f, content) ==
  /\ files[f] = Absent
  /\ files' = [files EXCEPT ![f] = content]
  /\ UNCHANGED <<cache, heap, lock, pc, op, svc, ctx, man, loc, ret, calls,
                 lastUpd, cachedVer, prevVer, stale, peers, updVer, pureVars, edgeVars>>

\* ---- LoadManifest, called alone or by GetResponseForRequest

Begin(p, o, sv, c) ==
  /\ pc' = [pc EXCEPT ![p] = IF o = "update" THEN "u_lock" ELSE "l_rlock"]
  /\ op' = [op EXCEPT ![p] = o]
  /\ svc' = [svc EXCEPT ![p] = sv]
  /\ ctx' = [ctx EXCEPT ![p] = c]
  /\ loc' = [loc EXCEPT ![p] = NoLocals]
  /\ ret' = [ret EXCEPT ![p] = NoReturn]
  /\ stale' = [stale EXCEPT ![p] = FALSE]
  /\ peers' = [q \in Procs |->
                IF q = p THEN { r \in Procs \ {p} : pc[r] \notin {"idle", "done"} }
                ELSE peers[q] \ {p}]
  /\ calls' = calls + 1

StartLoad(p, sv) ==
  /\ CanCall(p)
  /\ Begin(p, "load", sv, EmptyContext)
  /\ man' = [man EXCEPT ![p] = 0]
  /\ heap' = Gc(heap, cache, man', lastUpd)
  /\ UNCHANGED <<files, cache, lock, lastUpd, cachedVer, prevVer, updVer, pureVars, edgeVars>>

StartRender(p, sv, c) ==
  /\ CanCall(p)
  /\ Begin(p, "render", sv, c)
  /\ man' = [man EXCEPT ![p] = 0]
  /\ heap' = Gc(heap, cache, man', lastUpd)
  /\ UNCHANGED <<files, cache, lock, lastUpd, cachedVer, prevVer, updVer, pureVars, edgeVars>>

\* LoadManifest returns manifest, of content ver, to its caller
LoadReturns(p, how, ver) ==
  IF op[p] = "load"
  THEN /\ pc' = [pc EXCEPT ![p] = "done"]
       /\ ret' = [ret EXCEPT ![p] =
                    [Returned("ok", how, "", RawEmpty, 0, FALSE) EXCEPT !.ver = ver]]
  ELSE /\ pc' = [pc EXCEPT ![p] = "r_match"]
       /\ ret' = [ret EXCEPT ![p].how = how, ![p].ver = ver]

\* a call returns an error (or panics) to its caller
Fails(p, st) ==
  /\ pc' = [pc EXCEPT ![p] = "done"]
  /\ ret' = [ret EXCEPT ![p] = Returned(st, "", "", RawEmpty, 0, FALSE)]

\* line 64
LoadRLock(p) ==
  /\ pc[p] = "l_rlock"
  /\ lock.writer = 0
  /\ lock' = [lock EXCEPT !.readers = @ + 1]
  /\ pc' = [pc EXCEPT ![p] = "l_check"]
  /\ UNCHANGED <<files, cache, heap, op, svc, ctx, man, loc, ret, calls,
                 lastUpd, cachedVer, prevVer, stale, peers, updVer, pureVars, edgeVars>>

\* lines 65-69 with the read lock kept on a cache hit, as an early return
\* that forgets RUnlock would
LoadCheckKeepsRLock(p) ==
  /\ pc[p] = "l_check"
  /\ IF cache[svc[p]] # 0
     THEN /\ man' = [man EXCEPT ![p] = cache[svc[p]]]
          /\ LoadReturns(p, "cached", heap[cache[svc[p]]].ver)
          /\ UNCHANGED lock
     ELSE /\ pc' = [pc EXCEPT ![p] = "l_read"]
          /\ lock' = [lock EXCEPT !.readers = @ - 1]
          /\ UNCHANGED <<man, ret>>
  /\ UNCHANGED <<files, cache, heap, op, svc, ctx, loc, calls,
                 lastUpd, cachedVer, prevVer, stale, peers, updVer, pureVars, edgeVars>>

\* lines 65-69
LoadCheck(p) ==
  /\ pc[p] = "l_check"
  /\ lock' = [lock EXCEPT !.readers = @ - 1]
  /\ IF cache[svc[p]] # 0
     THEN /\ man' = [man EXCEPT ![p] = cache[svc[p]]]
          /\ LoadReturns(p, "cached", heap[cache[svc[p]]].ver)
     ELSE /\ pc' = [pc EXCEPT ![p] = "l_read"]
          /\ UNCHANGED <<man, ret>>
  /\ UNCHANGED <<files, cache, heap, op, svc, ctx, loc, calls,
                 lastUpd, cachedVer, prevVer, stale, peers, updVer, pureVars, edgeVars>>

\* lines 71-93 with the default cached, as a load that stores whatever it returns would
LoadReadCachesDefault(p) ==
  /\ pc[p] = "l_read"
  /\ LET rec == files[sanitizeFilename(svc[p])]
         i == Alloc(cache, man, lastUpd)
     IN  CASE rec.kind = "absent" ->
                /\ man' = [man EXCEPT ![p] = i]
                /\ cache' = [cache EXCEPT ![svc[p]] = i]
                /\ heap' = Gc([heap EXCEPT ![i] = NewCell(0)], cache', man', lastUpd)
                /\ LoadReturns(p, "default", 0)
           [] rec.kind = "malformed" ->
                /\ Fails(p, "error")
                /\ UNCHANGED <<man, heap, cache>>
           [] OTHER ->
                /\ man' = [man EXCEPT ![p] = i]
                /\ heap' = [heap EXCEPT ![i] = NewCell(rec.ver)]
                /\ pc' = [pc EXCEPT ![p] = "l_lock"]
                /\ UNCHANGED <<ret, cache>>
  /\ UNCHANGED <<files, lock, op, svc, ctx, loc, calls,
                 lastUpd, cachedVer, prevVer, stale, peers, updVer, pureVars, edgeVars>>

\* lines 71-93 with the zero manifest of a failed parse published, as a load that
\* stores before it checks the parse error would
LoadReadStoresUnparsed(p) ==
  /\ pc[p] = "l_read"
  /\ LET rec == files[sanitizeFilename(svc[p])]
         i == Alloc(cache, man, lastUpd)
     IN  CASE rec.kind = "absent" ->
                /\ man' = [man EXCEPT ![p] = i]
                /\ heap' = [heap EXCEPT ![i] = NewCell(0)]
                /\ LoadReturns(p, "default", 0)
                /\ UNCHANGED cache
           [] rec.kind = "malformed" ->
                /\ Fails(p, "error")
                /\ cache' = [cache EXCEPT ![svc[p]] = i]
                /\ heap' = [heap EXCEPT ![i] = NewCell(0)]
                /\ UNCHANGED man
           [] OTHER ->
                /\ man' = [man EXCEPT ![p] = i]
                /\ heap' = [heap EXCEPT ![i] = NewCell(rec.ver)]
                /\ pc' = [pc EXCEPT ![p] = "l_lock"]
                /\ UNCHANGED <<ret, cache>>
  /\ UNCHANGED <<files, lock, op, svc, ctx, loc, calls,
                 lastUpd, cachedVer, prevVer, stale, peers, updVer, pureVars, edgeVars>>

\* lines 71-93: read the record; synthesize the default, fail, or parse
LoadRead(p) ==
  /\ pc[p] = "l_read"
  /\ LET rec == files[sanitizeFilename(svc[p])]
         i == Alloc(cache, man, lastUpd)
     IN  CASE rec.kind = "absent" ->
                /\ man' = [man EXCEPT ![p] = i]
                /\ heap' = [heap EXCEPT ![i] = NewCell(0)]
                /\ LoadReturns(p, "default", 0)
           [] rec.kind = "malformed" ->
                /\ Fails(p, "error")
                /\ UNCHANGED <<man, heap>>
           [] OTHER ->
                /\ man' = [man EXCEPT ![p] = i]
                /\ heap' = [heap EXCEPT ![i] = NewCell(rec.ver)]
                /\ pc' = [pc EXCEPT ![p] = "l_lock"]
                /\ UNCHANGED ret
  /\ UNCHANGED <<files, cache, lock, op, svc, ctx, loc, calls,
                 lastUpd, cachedVer, prevVer, stale, peers, updVer, pureVars, edgeVars>>

\* line 102
LoadLock(p) ==
  /\ pc[p] = "l_lock"
  /\ LockFree
  /\ lock' = [lock EXCEPT !.writer = p]
  /\ pc' = [pc EXCEPT ![p] = "l_store"]
  /\ UNCHANGED <<files, cache, heap, op, svc, ctx, man, loc, ret, calls,
                 lastUpd, cachedVer, prevVer, stale, peers, updVer, pureVars, edgeVars>>

\* lines 103-106
LoadStore(p) ==
  /\ pc[p] = "l_store"
  /\ cache' = [cache EXCEPT ![svc[p]] = man[p]]
  /\ cachedVer' = [cachedVer EXCEPT ![svc[p]] = heap[man[p]].ver]
  /\ lock' = [lock EXCEPT !.writer = 0]
  /\ heap' = Gc(heap, cache', man, lastUpd)
  /\ LoadReturns(p, "parsed", heap[man[p]].ver)
  /\ UNCHANGED <<files, op, svc, ctx, man, loc, calls, lastUpd, prevVer, stale, peers, updVer, pureVars, edgeVars>>

\* ---- GetResponseForRequest, after LoadManifest returned

\* whether executing the template of source src on the document fails: the
\* template of version 1 uses no field; those of later versions dereference .a
TemplateFails(src, raw) ==
  src >= 2 /\ ~(raw.kind = "object" /\ "a" \in DOMAIN raw.fields)

\* lines 216-231: decode the document, execute the compiled template on it, return
Execute(p, ctype, raw, compiled, fresh) ==
  IF raw.kind = "empty"
  THEN Fails(p, "error")
  ELSE IF TemplateFails(compiled, raw)
  THEN /\ pc' = [pc EXCEPT ![p] = "done"]
       /\ ret' = [ret EXCEPT ![p] =
                    Returned("error", "execute", ctype, RawEmpty, compiled, fresh)]
  ELSE /\ pc' = [pc EXCEPT ![p] = "done"]
       /\ ret' = [ret EXCEPT ![p] =
                    Returned("ok", "rendered", ctype, raw, compiled, fresh)]

\* lines 235-237 made an error return, as a lookup that insists on a renderer would
FallbackFails(p, raw) == Fails(p, "error")

\* lines 235-237: no template of the response type; the document's bytes as a
\* string, labelled text/plain
PlainFallback(p, raw) ==
  /\ pc' = [pc EXCEPT ![p] = "done"]
  /\ ret' = [ret EXCEPT ![p] = Returned("ok", "plain", "text/plain", raw, 0, FALSE)]

\* lines 149-207 and 235-237: negotiate and match; return the document if JSON is
\* asked for; find the template of the response type and copy it (the copy reads
\* the compiled field without the lock); none: the plain-text fallback; compiled:
\* execute it; not compiled: compile tmplCopy.Template
RenderResolve(p) ==
  /\ pc[p] = "r_match"
  /\ LET m == ManifestOf(heap[man[p]].ver)
         responseType == determineResponseType(ctx[p].AcceptTypes)
         found == { i \in 1..Len(m.Templates) : m.Templates[i].ContentType = responseType }
     IN  /\ ctx' = [ctx EXCEPT ![p].PreferredType = responseType]
         /\ \E order \in Perms(DOMAIN m.UserAgentCases) :
              LET r == matchRequestContext(m, ctx[p], order)
              IN  IF r.status # "ok"
                  THEN Fails(p, r.status) /\ UNCHANGED loc
                  ELSE IF responseType = "application/json"
                  THEN /\ pc' = [pc EXCEPT ![p] = "done"]
                       /\ ret' = [ret EXCEPT ![p] =
                                    Returned("ok", "json", responseType, r.raw, 0, FALSE)]
                       /\ UNCHANGED loc
                  ELSE IF found = {}
                  THEN PlainFallback(p, r.raw) /\ UNCHANGED loc
                  ELSE LET i == CHOOSE x \in found : \A y \in found : x <= y
                           c == heap[man[p]].compiled[i]
                       IN  IF c # 0
                           THEN Execute(p, responseType, r.raw, c, FALSE) /\ UNCHANGED loc
                           ELSE /\ loc' = [loc EXCEPT ![p] =
                                             [raw |-> r.raw, i |-> i,
                                              src |-> m.Templates[i].Template]]
                                /\ pc' = [pc EXCEPT ![p] = "r_lock"]
                                /\ UNCHANGED ret
  /\ UNCHANGED <<files, cache, heap, lock, op, svc, man, calls,
                 lastUpd, cachedVer, prevVer, stale, peers, updVer, pureVars, edgeVars>>

\* line 209
RenderLock(p) ==
  /\ pc[p] = "r_lock"
  /\ LockFree
  /\ lock' = [lock EXCEPT !.writer = p]
  /\ pc' = [pc EXCEPT ![p] = "r_store"]
  /\ UNCHANGED <<files, cache, heap, op, svc, ctx, man, loc, ret, calls,
                 lastUpd, cachedVer, prevVer, stale, peers, updVer, pureVars, edgeVars>>

\* lines 210-231 with the compiled template stored only when its execution
\* succeeds, as a renderer cache filled after the first good rendering would
RenderStoreIfExecuted(p) ==
  /\ pc[p] = "r_store"
  /\ heap' = IF TemplateFails(loc[p].src, loc[p].raw) THEN heap
             ELSE [heap EXCEPT ![man[p]].compiled[loc[p].i] = loc[p].src]
  /\ lock' = [lock EXCEPT !.writer = 0]
  /\ loc' = [loc EXCEPT ![p] = NoLocals]
  /\ Execute(p, ctx[p].PreferredType, loc[p].raw, loc[p].src, TRUE)
  /\ UNCHANGED <<files, cache, op, svc, ctx, man, calls,
                 lastUpd, cachedVer, prevVer, stale, peers, updVer, pureVars, edgeVars>>

\* lines 210-231: store the compiled template in the manifest's slot, unlock,
\* execute it
RenderStore(p) ==
  /\ pc[p] = "r_store"
  /\ heap' = [heap EXCEPT ![man[p]].compiled[loc[p].i] = loc[p].src]
  /\ lock' = [lock EXCEPT !.writer = 0]
  /\ loc' = [loc EXCEPT ![p] = NoLocals]
  /\ Execute(p, ctx[p].PreferredType, loc[p].raw, loc[p].src, TRUE)
  /\ UNCHANGED <<files, cache, op, svc, ctx, man, calls,
                 lastUpd, cachedVer, prevVer, stale, peers, updVer, pureVars, edgeVars>>

\* ---- UpdateManifest

\* the caller's edit of an instance it holds: the fields change, the compiled
\* templates stay where the Templates slice keeps its entries
Edited(cell, v) ==
  [ver |-> v,
   compiled |-> IF Len(cell.compiled) = Len(ManifestOf(v).Templates)
                THEN cell.compiled
                ELSE [i \in 1..Len(ManifestOf(v).Templates) |-> 0]]

\* the caller passes a new instance of version v (inst = 0) or an instance
\* that LoadManifest returned to it earlier, which is any cached one, edited
\* to version v
StartUpdate(p, sv, v, inst) ==
  /\ CanCall(p)
  /\ Begin(p, "update", sv, EmptyContext)
  /\ IF inst # 0
     THEN /\ inst \in Range(cache)
          /\ man' = [man EXCEPT ![p] = inst]
          /\ heap' = Gc([heap EXCEPT ![inst] = Edited(@, v)], cache, man', lastUpd)
     ELSE LET i == Alloc(cache, [man EXCEPT ![p] = 0], lastUpd)
          IN  /\ man' = [man EXCEPT ![p] = i]
              /\ heap' = Gc([heap EXCEPT ![i] = NewCell(v)], cache, man', lastUpd)
  /\ UNCHANGED <<files, cache, lock, lastUpd, cachedVer, prevVer, updVer, pureVars, edgeVars>>

\* lines 320-321
UpdateLock(p) ==
  /\ pc[p] = "u_lock"
  /\ LockFree
  /\ lock' = [lock EXCEPT !.writer = p]
  /\ pc' = [pc EXCEPT ![p] = "u_write"]
  /\ UNCHANGED <<files, cache, heap, op, svc, ctx, man, loc, ret, calls,
                 lastUpd, cachedVer, prevVer, stale, peers, updVer, pureVars, edgeVars>>

\* lines 323-335 with the cache entry replaced before the record is written, as
\* an update that stores first and persists afterwards would
UpdateWriteStoresFirst(p, outcome) ==
  /\ pc[p] = "u_write"
  /\ lock' = [lock EXCEPT !.writer = 0]
  /\ cache' = [cache EXCEPT ![svc[p]] = man[p]]
  /\ cachedVer' = [cachedVer EXCEPT ![svc[p]] = heap[man[p]].ver]
  /\ IF outcome = "ok"
     THEN /\ files' = [files EXCEPT ![sanitizeFilename(svc[p])] =
                         Record(Persisted(heap[man[p]].ver))]
          /\ lastUpd' = [lastUpd EXCEPT ![svc[p]] = man[p]]
          /\ prevVer' = [prevVer EXCEPT ![svc[p]] = cachedVer[svc[p]]]
          /\ updVer' = [updVer EXCEPT ![svc[p]] = heap[man[p]].ver]
          /\ stale' = [q \in Procs |->
                         IF /\ q # p /\ pc[q] # "idle"
                            /\ sanitizeFilename(svc[q]) = sanitizeFilename(svc[p])
                         THEN TRUE ELSE stale[q]]
          /\ heap' = Gc(heap, cache', man, lastUpd')
          /\ pc' = [pc EXCEPT ![p] = "done"]
          /\ ret' = [ret EXCEPT ![p] = Returned("ok", "updated", "", RawEmpty, 0, FALSE)]
     ELSE /\ files' = [files EXCEPT ![sanitizeFilename(svc[p])] =
                         IF outcome = "truncated" THEN Malformed ELSE @]
          /\ Fails(p, "error")
          /\ heap' = Gc(heap, cache', man, lastUpd)
          /\ UNCHANGED <<lastUpd, prevVer, updVer, stale>>
  /\ UNCHANGED <<op, svc, ctx, man, loc, calls, peers, pureVars, edgeVars>>

\* lines 323-335: write the record and replace the cache entry; WriteFile may
\* fail, leaving the record as it was or truncated
UpdateWrite(p, outcome) ==
  /\ pc[p] = "u_write"
  /\ lock' = [lock EXCEPT !.writer = 0]
  /\ IF outcome = "ok"
     THEN /\ files' = [files EXCEPT ![sanitizeFilename(svc[p])] =
                         Record(Persisted(heap[man[p]].ver))]
          /\ cache' = [cache EXCEPT ![svc[p]] = man[p]]
          /\ lastUpd' = [lastUpd EXCEPT ![svc[p]] = man[p]]
          /\ prevVer' = [prevVer EXCEPT ![svc[p]] = cachedVer[svc[p]]]
          /\ cachedVer' = [cachedVer EXCEPT ![svc[p]] = heap[man[p]].ver]
          /\ updVer' = [updVer EXCEPT ![svc[p]] = heap[man[p]].ver]
          /\ stale' = [q \in Procs |->
                         IF /\ q # p /\ pc[q] # "idle"
                            /\ sanitizeFilename(svc[q]) = sanitizeFilename(svc[p])
                         THEN TRUE ELSE stale[q]]
          /\ heap' = Gc(heap, cache', man, lastUpd')
          /\ pc' = [pc EXCEPT ![p] = "done"]
          /\ ret' = [ret EXCEPT ![p] = Returned("ok", "updated", "", RawEmpty, 0, FALSE)]
     ELSE /\ files' = [files EXCEPT ![sanitizeFilename(svc[p])] =
                         IF outcome = "truncated" THEN Malformed ELSE @]
          /\ Fails(p, "error")
          /\ UNCHANGED <<cache, heap, lastUpd, prevVer, cachedVer, updVer, stale>>
  /\ UNCHANGED <<op, svc, ctx, man, loc, calls, peers, pureVars, edgeVars>>

WriteOutcomes == {"ok", "failed", "truncated"}

\* the calls made for the service names of S
Calls(S) ==
  \/ \E p \in Procs, sv \in S : StartLoad(p, sv)
  \/ \E p \in Procs, sv \in S, c \in Contexts : StartRender(p, sv, c)
  \/ \E p \in Procs, sv \in S, v \in Versions, inst \in {0} \cup InstIds :
       StartUpdate(p, sv, v, inst)

\* the records authored out of band for the service names of S
Writes(S) ==
  \/ \E sv \in S, v \in Versions : ExternalWrite(sanitizeFilename(sv), Record(v))
  \/ \E sv \in S : ExternalWrite(sanitizeFilename(sv), Malformed)

Steps ==
  \/ \E p \in Procs : LoadRLock(p)
  \/ \E p \in Procs : LoadCheck(p)
  \/ \E p \in Procs : LoadRead(p)
  \/ \E p \in Procs : LoadLock(p)
  \/ \E p \in Procs : LoadStore(p)
  \/ \E p \in Procs : RenderResolve(p)
  \/ \E p \in Procs : RenderLock(p)
  \/ \E p \in Procs : RenderStore(p)
  \/ \E p \in Procs : UpdateLock(p)
  \/ \E p \in Procs, outcome \in WriteOutcomes : UpdateWrite(p, outcome)

Next == Calls(OneName) \/ Writes(OneName) \/ Steps

Spec == Init /\ [][Next]_vars

\* ------------------------------------------------------------------ several names

\* the calls made for the service names of S by callers that load and ask for
\* the structured document
ReadCalls(S) ==
  \/ \E p \in Procs, sv \in S : StartLoad(p, sv)
  \/ \E p \in Procs, sv \in S : StartRender(p, sv, CtxJson)

ReadSteps ==
  \/ \E p \in Procs : LoadRLock(p)
  \/ \E p \in Procs : LoadCheck(p)
  \/ \E p \in Procs : LoadRead(p)
  \/ \E p \in Procs : LoadLock(p)
  \/ \E p \in Procs : LoadStore(p)
  \/ \E p \in Procs : RenderResolve(p)

\* two names with a record each, read
TwoRecords == {SvcHttpA, SvcB}
NextOthers == ReadCalls(TwoRecords) \/ Writes(TwoRecords) \/ ReadSteps
SpecOthers == Init /\ [][NextOthers]_vars

\* updates with a new instance
UpdateCalls(S) ==
  \E p \in Procs, sv \in S, v \in Versions : StartUpdate(p, sv, v, 0)

UpdateSteps ==
  \/ \E p \in Procs : UpdateLock(p)
  \/ \E p \in Procs, outcome \in WriteOutcomes : UpdateWrite(p, outcome)

\* two names with one record, read and updated
OneRecord == {SvcA, SvcHttpA}
NextShared ==
  \/ ReadCalls(OneRecord) \/ UpdateCalls(OneRecord) \/ Writes(OneRecord)
  \/ ReadSteps \/ UpdateSteps
SpecShared == Init /\ [][NextShared]_vars

\* ------------------------------------------------------------------ fair scheduling

\* the calls that take the lock in each of its uses: loads, render requests
\* that compile, updates with a new instance
LockingCalls ==
  \/ \E p \in Procs, sv \in OneName : StartLoad(p, sv)
  \/ \E p \in Procs, sv \in OneName : StartRender(p, sv, CtxHtml)
  \/ UpdateCalls(OneName)
NextFair == LockingCalls \/ Steps

\* the steps of caller p inside a call
StepOf(p) ==
  \/ LoadRLock(p) \/ LoadCheck(p) \/ LoadRead(p) \/ LoadLock(p) \/ LoadStore(p)
  \/ RenderResolve(p) \/ RenderLock(p) \/ RenderStore(p)
  \/ UpdateLock(p) \/ \E outcome \in WriteOutcomes : UpdateWrite(p, outcome)

\* the scheduler runs every goroutine that can take a step, and sync.RWMutex
\* hands the lock to a goroutine that waits for it: a call that can go on
\* does.  Nothing obliges a caller to make a call.
Fairness == \A p \in Procs : WF_vars(StepOf(p))
FairSpec == Init /\ [][NextFair]_vars /\ Fairness

\* ------------------------------------------------------------------ the request boundary

\* http.Error: the status code, Content-Type text/plain, the message
HttpError(code, msg) ==
  [code |-> code, ctype |-> "text/plain; charset=utf-8", text |-> msg, doc |-> RawEmpty,
   tail |-> ""]

\* handleManifestRequest after GetResponseForRequest returned r: an error gives
\* 500; a response that is a string (a rendering or the plain-text fallback)
\* is written with its content type; one that is not a string (the
\* json.RawMessage of the application/json case) gives 500
Written(r) ==
  IF r.status # "ok" THEN HttpError(500, "Error loading service manifest")
  ELSE IF r.how \in {"rendered", "plain"}
  THEN [code |-> 200, ctype |-> r.ctype, text |-> "", doc |-> r.raw, tail |-> ""]
  ELSE HttpError(500, "Invalid response type")

\* the service names a URL path yields: they hold no "/"
PathNames == {SvcA}

\* the handler of "/" calls handleManifestRequest with the request's
\* User-Agent and Accept headers (no country)
HandleRequest(p, c) ==
  /\ pc[p] = "idle"
  /\ \E sv \in PathNames : StartRender(p, sv, c)

\* GetResponseForRequest has returned: the response is written, and the handler
\* of "/" writes the seed after it
Respond(p) ==
  /\ pc[p] = "done" /\ op[p] = "render" /\ http[p] = NoResponse
  /\ http' = [http EXCEPT ![p] = [Written(ret[p]) EXCEPT !.tail = "seeded"]]
  /\ UNCHANGED <<pureVars, storeVars>>

NextBoundary ==
  \/ \E p \in Procs, c \in Contexts : HandleRequest(p, c)
  \/ \E p \in Procs : Respond(p)
  \/ Writes(PathNames) \/ ReadSteps
  \/ \E p \in Procs : RenderLock(p)
  \/ \E p \in Procs : RenderStore(p)
SpecBoundary == Init /\ [][NextBoundary]_vars

\* one name, its record and its updates without a default_response field
NextDefault ==
  \/ ReadCalls(OneName) \/ ReadSteps \/ UpdateSteps
  \/ \E sv \in OneName : ExternalWrite(sanitizeFilename(sv), Record(NoDefault))
  \/ \E p \in Procs, sv \in OneName : StartUpdate(p, sv, NoDefault, 0)
SpecDefault == Init /\ [][NextDefault]_vars

\* ------------------------------------------------------------------ negotiation runs

InitNegotiate ==
  /\ acceptIn \in AcceptLists /\ typeOut = ""
  /\ MergeIdle /\ MatchIdle /\ StoreInit

Negotiate ==
  /\ typeOut = ""
  /\ typeOut' = determineResponseType(acceptIn)
  /\ UNCHANGED <<acceptIn, mBase, mOver, mOut, rsIn, uaAuthored, ctxIn, res1, res2, storeVars, edgeVars>>

NextNegotiate == Negotiate
SpecNegotiate == InitNegotiate /\ [][NextNegotiate]_vars

\* ------------------------------------------------------------------ merge runs

InitMerge ==
  /\ mBase \in RawDocs /\ mOver \in RawDocs /\ mOut = NoResult
  /\ NegotiateIdle /\ MatchIdle /\ StoreInit

Merge ==
  /\ mOut = NoResult
  /\ mOut' = mergeResponses(mBase, mOver)
  /\ UNCHANGED <<acceptIn, typeOut, mBase, mOver, rsIn, uaAuthored, ctxIn, res1, res2, storeVars, edgeVars>>

NextMerge == Merge
SpecMerge == InitMerge /\ [][NextMerge]_vars

\* ------------------------------------------------------------------ matching runs

InitMatch ==
  /\ rsIn \in [DefaultResponse : MatchDocs,
               UserAgentCases : MapsInto(Patterns, MatchDocs),
               CountryCases : MapsInto(CountryKeys, MatchDocs),
               Templates : {NoTemplates}]
  /\ uaAuthored \in Perms(DOMAIN rsIn.UserAgentCases)
  /\ ctxIn \in [UserAgent : Identities, AcceptTypes : {<<>>}, PreferredType : {""},
               Country : {<<>>, US}]
  /\ res1 = NoResult /\ res2 = NoResult
  /\ NegotiateIdle /\ MergeIdle /\ StoreInit

Resolve1 ==
  /\ res1 = NoResult
  /\ \E order \in Perms(DOMAIN rsIn.UserAgentCases) :
       res1' = matchRequestContext(rsIn, ctxIn, order)
  /\ UNCHANGED <<acceptIn, typeOut, mBase, mOver, mOut, rsIn, uaAuthored, ctxIn, res2, storeVars, edgeVars>>

Resolve2 ==
  /\ res1 # NoResult /\ res2 = NoResult
  /\ \E order \in Perms(DOMAIN rsIn.UserAgentCases) :
       res2' = matchRequestContext(rsIn, ctxIn, order)
  /\ UNCHANGED <<acceptIn, typeOut, mBase, mOver, mOut, rsIn, uaAuthored, ctxIn, res1, storeVars, edgeVars>>

NextMatch == Resolve1 \/ Resolve2
SpecMatch == InitMatch /\ [][NextMatch]_vars

\* ------------------------------------------------------------------ claims on negotiation

Html == <<"text/html">>
Plain == <<"text/plain">>
Json == <<"application/json">>
HasAny(e) == Contains(e, Html) \/ Contains(e, Plain) \/ Contains(e, Json)

C8_MergeShallowOverrideWins ==
  (mOut # NoResult /\ mBase.kind = "object" /\ mOver.kind = "object") =>
    /\ mOut.status = "ok" /\ mOut.raw.kind = "object"
    /\ DOMAIN mOut.raw.fields = (DOMAIN mBase.fields) \cup (DOMAIN mOver.fields)
    /\ \A k \in DOMAIN mOver.fields : mOut.raw.fields[k] = mOver.fields[k]
    /\ \A k \in (DOMAIN mBase.fields) \ (DOMAIN mOver.fields) :
         mOut.raw.fields[k] = mBase.fields[k]
    /\ (mBase.fields = DocAB.fields /\ mOver.fields = DocBC.fields =>
          mOut.raw.fields =
            [k \in Keys |-> CASE k = "a" -> [num |-> 1] [] k = "b" -> [num |-> 3]
                              [] OTHER -> [num |-> 4]])

C8_Witness ==
  /\ mBase = DocAB /\ mOver = DocBC /\ mOut.status = "ok"
  /\ mOut.raw.fields["b"] = [num |-> 3]

\* ------------------------------------------------------------------ claims on matching

Matching(manifest, c) ==
  { q \in DOMAIN manifest.UserAgentCases : Contains(c.UserAgent, q) }

\* C6 (as claimed): for a non-empty identity, the one identity override applied
\* is that of the first pattern, in the authored order of the rule set's
\* patterns, that is a substring of the identity.
C6_FirstAuthoredPatternApplied ==
  (res1 # NoResult /\ ctxIn.UserAgent # <<>>) =>
    res1 = matchRequestContext(rsIn, ctxIn, uaAuthored)

\* C7 (as claimed): two resolutions of the same rule set and context, with no
\* update in between, return identical results.
C7_ResolutionDeterministic ==
  (res1 # NoResult /\ res2 # NoResult) => res1 = res2

\* C9: with an empty identity and an empty locale the resolution returns exactly
\* the rule set's defaultResponse, the bytes unmodified, whatever overrides the
\* rule set holds.
C9_EmptyContextGivesDefault ==
  (res1 # NoResult /\ ctxIn.UserAgent = <<>> /\ ctxIn.Country = <<>>) =>
    res1 = Ok(rsIn.DefaultResponse)

C9_Witness ==
  /\ res1 = Ok(DocAB) /\ ctxIn.UserAgent = <<>> /\ ctxIn.Country = <<>>
  /\ <<>> \in DOMAIN rsIn.UserAgentCases /\ Bot \in DOMAIN rsIn.UserAgentCases
  /\ <<>> \in DOMAIN rsIn.CountryCases /\ US \in DOMAIN rsIn.CountryCases

\* C10: when the context's locale has a locale override and its identity matches
\* an identity override (all documents being objects), the resolution succeeds
\* and, for the identity override applied, every key of the identity override
\* carries the identity override's value, and every key of the locale override
\* that the identity override does not define carries the locale override's value.
C10_LocaleBeforeIdentity ==
  ( /\ res1 # NoResult
    /\ ctxIn.Country # <<>> /\ ctxIn.Country \in DOMAIN rsIn.CountryCases
    /\ ctxIn.UserAgent # <<>> /\ Matching(rsIn, ctxIn) # {}
    /\ rsIn.DefaultResponse.kind = "object"
    /\ rsIn.CountryCases[ctxIn.Country].kind = "object"
    /\ \A q \in Matching(rsIn, ctxIn) : rsIn.UserAgentCases[q].kind = "object" ) =>
    /\ res1.status = "ok" /\ res1.raw.kind = "object"
    /\ \E q \in Matching(rsIn, ctxIn) :
         LET ua == rsIn.UserAgentCases[q].fields
             lo == rsIn.CountryCases[ctxIn.Country].fields
         IN  /\ (DOMAIN ua) \cup (DOMAIN lo) \subseteq DOMAIN res1.raw.fields
             /\ \A k \in DOMAIN ua : res1.raw.fields[k] = ua[k]
             /\ \A k \in (DOMAIN lo) \ (DOMAIN ua) : res1.raw.fields[k] = lo[k]

C10_Witness ==
  /\ res1.status = "ok"
  /\ ctxIn.Country = US /\ ctxIn.UserAgent = SomeBot2Crawler
  /\ rsIn.DefaultResponse = DocBC
  /\ DOMAIN rsIn.CountryCases = {US} /\ rsIn.CountryCases[US] = DocBC
  /\ DOMAIN rsIn.UserAgentCases = {Bot} /\ rsIn.UserAgentCases[Bot] = DocAB
  /\ res1.raw.fields["b"] = [num |-> 2] /\ res1.raw.fields["c"] = [num |-> 4]

\* ------------------------------------------------------------------ claims on the store

\* a call of caller p that has returned
Done(p, o) == pc[p] = "done" /\ op[p] = o
\* the call of p started after the last successful update of its service
AfterUpdate(p) == lastUpd[svc[p]] # 0 /\ ~stale[p]

\* C1 (as claimed): once update(s, R) has returned ok, every load(s) that starts
\* afterwards, and before the next successful update of s, returns R (the
\* instance the update cached, or one of the content R had), whatever loads
\* of s were running meanwhile.
C1_LoadAfterUpdateReturnsIt ==
  \A p \in Procs :
    (Done(p, "load") /\ AfterUpdate(p)) =>
      /\ ret[p].status = "ok"
      /\ man[p] = lastUpd[svc[p]] \/ ret[p].ver = updVer[svc[p]]

\* the step with which caller p leaves lines 71-93 of LoadManifest
LeavesRead(p) == pc[p] = "l_read" /\ pc'[p] # "l_read"

\* C2: a load of a name that has no backing record returns a synthesized rule
\* set with a non-empty default document and empty override maps, and leaves
\* the cache as it was, no entry pointing to what it returned; the cache never
\* holds a synthesized rule set, and a load that reads the record created
\* afterwards goes on with the rule set of that record.
C2_DefaultNotCached ==
  /\ [](\A sv \in Services : cache[sv] # 0 => heap[cache[sv]].ver # 0)
  /\ [][\A p \in Procs :
          LeavesRead(p) =>
            LET rec == files[sanitizeFilename(svc[p])]
            IN  /\ rec = Absent =>
                     /\ pc'[p] = IF op[p] = "load" THEN "done" ELSE "r_match"
                     /\ op[p] = "load" => ret'[p].status = "ok"
                     /\ heap'[man'[p]].ver = 0
                     /\ ManifestOf(0).DefaultResponse.kind = "object"
                     /\ DOMAIN ManifestOf(0).DefaultResponse.fields # {}
                     /\ DOMAIN ManifestOf(0).UserAgentCases = {}
                     /\ DOMAIN ManifestOf(0).CountryCases = {}
                     /\ cache' = cache
                     /\ man'[p] \notin Range(cache')
                /\ rec.kind = "record" =>
                     pc'[p] = "l_lock" /\ heap'[man'[p]].ver = rec.ver]_vars

\* a load returned the synthesized default, the record was created, and the
\* next load of the name returned the rule set of the record
C2_Witness ==
  \E p, q \in Procs :
    /\ Done(p, "load") /\ ret[p].how = "default" /\ ret[p].ver = 0
    /\ Done(q, "load") /\ ret[q].how = "parsed" /\ svc[q] = svc[p]
    /\ lastUpd[svc[p]] = 0
    /\ files[sanitizeFilename(svc[p])] = Record(ret[q].ver)
    /\ p \notin peers[q] /\ q \notin peers[p]

\* C3 (as claimed): after update(s, R') succeeded, with R' a new instance or the
\* cached one modified, a render request that starts afterwards does not reuse
\* a renderer compiled from the template source of the rule set that was
\* cached before the update (a source other than that of R').
C3_RendererInvalidatedByUpdate ==
  \A p \in Procs :
    (/\ Done(p, "render") /\ AfterUpdate(p)
     /\ ret[p].status = "ok" /\ ret[p].exec # 0 /\ ~ret[p].fresh
     /\ prevVer[svc[p]] # 0
     /\ ManifestOf(prevVer[svc[p]]).Templates # ManifestOf(updVer[svc[p]]).Templates) =>
      ret[p].exec # ManifestOf(prevVer[svc[p]]).Templates[1].Template

\* the slot of the instance for the renderer of content type t is compiled
Compiled(inst, t) ==
  \E i \in 1..Len(heap[inst].compiled) :
    ManifestOf(heap[inst].ver).Templates[i].ContentType = t /\ heap[inst].compiled[i] # 0

\* C4 (as claimed): when two requests made the first render request for the
\* same service and content type concurrently (each found the renderer not
\* compiled), no update succeeded, and every call has returned, the rule set
\* the cache holds for the service has the renderer of that type compiled, so
\* that a request that starts afterwards reuses it.
C4_OneCompiledAfterConcurrentFirst ==
  \A p, q \in Procs :
    (/\ p # q /\ q \in peers[p] /\ svc[p] = svc[q]
     /\ Done(p, "render") /\ ret[p].how = "rendered" /\ ret[p].fresh
     /\ Done(q, "render") /\ ret[q].how = "rendered" /\ ret[q].fresh
     /\ ret[p].ctype = ret[q].ctype
     /\ lastUpd[svc[p]] = 0
     /\ \A r \in Procs : pc[r] \in {"idle", "done"}) =>
      cache[svc[p]] # 0 /\ Compiled(cache[svc[p]], ret[p].ctype)

\* ------------------------------------------------------------------ claims on rendering

\* the step with which caller p leaves lines 149-207 of GetResponseForRequest
LeavesResolve(p) == pc[p] = "r_match" /\ pc'[p] # "r_match"
\* the templates of the instance p holds whose content type is the negotiated one
Renderers(p) ==
  LET m == ManifestOf(heap[man[p]].ver)
  IN  { i \in 1..Len(m.Templates) :
          m.Templates[i].ContentType = determineResponseType(ctx[p].AcceptTypes) }

\* C11: when the negotiated content type is not application/json and the rule
\* set has no renderer entry of that type, the request returns at once: an
\* error only if the resolution of the document failed, otherwise, without
\* error, the bytes of the resolved document labelled text/plain; no renderer
\* is compiled or cached (no instance and no cache entry changes).
C11_PlainTextFallback ==
  [][\A p \in Procs :
       (/\ LeavesResolve(p)
        /\ determineResponseType(ctx[p].AcceptTypes) # "application/json"
        /\ Renderers(p) = {}) =>
         /\ pc'[p] = "done" /\ heap' = heap /\ cache' = cache
         /\ \E order \in Perms(DOMAIN ManifestOf(heap[man[p]].ver).UserAgentCases) :
              LET r == matchRequestContext(ManifestOf(heap[man[p]].ver), ctx[p], order)
              IN  IF r.status = "ok"
                  THEN /\ ret'[p].status = "ok" /\ ret'[p].ctype = "text/plain"
                       /\ ret'[p].raw = r.raw /\ ret'[p].exec = 0
                  ELSE ret'[p].status = r.status]_vars

\* a request negotiated text/html on a rule set without templates and got the
\* document as text/plain
C11_Witness ==
  \E p \in Procs :
    /\ Done(p, "render") /\ ret[p].status = "ok" /\ ret[p].ctype = "text/plain"
    /\ determineResponseType(ctx[p].AcceptTypes) = "text/html"
    /\ ret[p].raw = ManifestOf(0).DefaultResponse /\ ret[p].exec = 0

\* ------------------------------------------------------------------ claims on failures

\* a step of caller p inside a call of UpdateManifest, the entry included
UpdateStep(p) ==
  pc'[p] # pc[p] /\ (pc'[p] = "u_lock" \/ pc[p] \in {"u_lock", "u_write"})

\* C12: no step of an update call changes a cache entry, of its service or of
\* another, unless it is the step with which the call returns ok; an update
\* whose write of the record fails returns the error with the lock released.
C12_FailedUpdateLeavesCache ==
  [][\A p \in Procs :
       UpdateStep(p) =>
         /\ ret'[p].status # "ok" => cache' = cache
         /\ (pc[p] = "u_write" /\ ret'[p].status # "ok") =>
              /\ pc'[p] = "done" /\ ret'[p].status = "error"
              /\ lock' = [writer |-> 0, readers |-> 0]]_vars

\* an update of a service with a cache entry failed, and the entry is another
\* instance than the one the update was given
C12_Witness ==
  \E p \in Procs :
    /\ Done(p, "update") /\ ret[p].status = "error"
    /\ cache[svc[p]] # 0 /\ cache[svc[p]] # man[p] /\ LockFree

\* what the other callers hold
Others(p) == [q \in Procs \ {p} |-> <<pc[q], op[q], svc[q], man[q], loc[q], ret[q]>>]

\* C13: a load of a service whose record does not parse as a rule set returns
\* an error; it adds no cache entry for the service (a service whose record is
\* malformed has no cache entry), and its steps change no cache entry, no
\* instance, no record and nothing the other callers hold; what a load or a
\* resolution of a service returns is the rule set of that service's own record.
C13_MalformedRecordIsContained ==
  /\ [](\A sv \in Services : files[sanitizeFilename(sv)] = Malformed => cache[sv] = 0)
  /\ [](\A q \in Procs :
          (pc[q] \in {"done", "r_match"} /\ ret[q].how \in {"parsed", "cached"}) =>
            files[sanitizeFilename(svc[q])] = Record(ret[q].ver))
  /\ [][\A p \in Procs :
          (/\ pc[p] \in {"l_rlock", "l_check", "l_read"} /\ pc'[p] # pc[p]
           /\ files[sanitizeFilename(svc[p])] = Malformed) =>
            /\ cache' = cache /\ heap' = heap /\ files' = files
            /\ Others(p)' = Others(p)
            /\ pc[p] = "l_read" => pc'[p] = "done" /\ ret'[p].status = "error"]_vars

\* a load of a service with a malformed record failed while a resolution of
\* another service, whose rule set is cached, was running
C13_Witness ==
  \E p, q \in Procs :
    /\ Done(p, "load") /\ ret[p].status = "error"
    /\ files[sanitizeFilename(svc[p])] = Malformed /\ cache[svc[p]] = 0
    /\ svc[q] # svc[p] /\ q \in peers[p]
    /\ Done(q, "render") /\ ret[q].status = "ok" /\ cache[svc[q]] # 0
    /\ files[sanitizeFilename(svc[q])] = Record(heap[cache[svc[q]]].ver)

\* the compiled template in the slot of content type t of the instance p holds
\* (0: not compiled, or no such slot)
SlotOf(p) ==
  IF Renderers(p) = {} THEN 0
  ELSE heap[man[p]].compiled[CHOOSE x \in Renderers(p) : \A y \in Renderers(p) : x <= y]

\* C14: when the execution of a compiled renderer fails, the request returns
\* an error and the step changes no cache entry, no record and nothing another
\* caller holds; the renderer that failed is in its slot of the rule set when
\* the request returns, and the slot stays compiled afterwards; and a request
\* that finds a compiled renderer in the slot executes that one and does not
\* compile.
C14_FailedExecutionKeepsRenderer ==
  /\ [](\A p \in Procs :
          (Done(p, "render") /\ ret[p].how = "execute") =>
            /\ ret[p].status = "error"
            /\ \E i \in 1..Len(heap[man[p]].compiled) : heap[man[p]].compiled[i] # 0)
  /\ [][\A p \in Procs :
          (pc'[p] # pc[p] /\ ret'[p].how = "execute") =>
            /\ cache' = cache /\ files' = files /\ Others(p)' = Others(p)
            /\ \E i \in 1..Len(heap'[man[p]].compiled) :
                 heap'[man[p]].compiled[i] = ret'[p].exec]_vars
  /\ [][\A p \in Procs :
          (LeavesResolve(p) /\ SlotOf(p) # 0
           /\ determineResponseType(ctx[p].AcceptTypes) # "application/json") =>
            /\ pc'[p] = "done" /\ heap' = heap
            /\ ret'[p].how \in {"rendered", "execute"} =>
                 ret'[p].exec = SlotOf(p) /\ ~ret'[p].fresh]_vars

\* the execution of a renderer failed for the request that compiled it, and the
\* next request found it in the slot and executed it without compiling
C14_Witness ==
  \E p, q \in Procs :
    /\ Done(p, "render") /\ ret[p].how = "execute" /\ ret[p].fresh
    /\ Done(q, "render") /\ ret[q].how = "execute" /\ ~ret[q].fresh
    /\ man[q] = man[p] /\ ret[q].exec = ret[p].exec
    /\ p \notin peers[q] /\ q \notin peers[p]

\* ------------------------------------------------------------------ claims on the rule sets

\* C15 (as claimed): every rule set the cache holds and every rule set a load
\* returned has a present, non-empty defaultResponse, also when it was parsed
\* from a record without a default-response field or stored by an update.
C15_DefaultResponsePresent ==
  /\ \A sv \in Services :
       cache[sv] # 0 => ManifestOf(heap[cache[sv]].ver).DefaultResponse.kind # "empty"
  /\ \A p \in Procs :
       (Done(p, "load") /\ ret[p].status = "ok") =>
         ManifestOf(ret[p].ver).DefaultResponse.kind # "empty"

\* ------------------------------------------------------------------ claims on overrides

\* the locale override that the resolution of (rsIn, ctxIn) merges, if any
LocaleOverrides ==
  IF ctxIn.Country # <<>> /\ ctxIn.Country \in DOMAIN rsIn.CountryCases
  THEN {rsIn.CountryCases[ctxIn.Country]} ELSE {}
\* the identity overrides one of which it merges, if the locale merge succeeds
IdentityOverrides ==
  IF ctxIn.UserAgent # <<>>
  THEN { rsIn.UserAgentCases[q] : q \in Matching(rsIn, ctxIn) } ELSE {}

\* C16 (as claimed): a resolution that merges an override that is not a
\* structured document (a JSON object) fails with an error and returns no
\* document: so it does when its locale override is not an object, and when
\* none of the identity overrides it can merge is one.
C16_InvalidOverrideFails ==
  (/\ res1 # NoResult
   /\ \/ \E o \in LocaleOverrides : o.kind # "object"
      \/ IdentityOverrides # {} /\ \A o \in IdentityOverrides : o.kind # "object") =>
    res1.status = "error"

\* ------------------------------------------------------------------ claims on the boundary

\* C17 (as claimed): a request for which GetResponseForRequest returned without
\* error (the structured document, a rendering, or the plain-text fallback)
\* gets status 200 with the returned content type and the returned body; a
\* request gets status 500 only when it returned an error.
C17_SuccessIsServed ==
  \A p \in Procs :
    http[p] # NoResponse =>
      /\ ret[p].status = "ok" =>
           /\ http[p].code = 200 /\ http[p].ctype = ret[p].ctype
           /\ http[p].text = "" /\ http[p].doc = ret[p].raw
      /\ http[p].code = 500 => ret[p].status # "ok"

\* ------------------------------------------------------------------ claims on publication

\* C18 (as claimed): of the loads of a never-updated service name that missed
\* the cache and parsed the record concurrently, the first to publish wins: the
\* publication of a load that finds an entry already published leaves that
\* cached instance in place.
C18_FirstPublisherWins ==
  [][\A p \in Procs :
       (/\ pc[p] = "l_store" /\ pc'[p] # "l_store"
        /\ lastUpd[svc[p]] = 0 /\ cache[svc[p]] # 0) =>
         cache'[svc[p]] = cache[svc[p]]]_vars

\* ------------------------------------------------------------------ claims on locking

\* caller p is about to read the compiled field of slot i of instance inst
\* (the copy of the template at lines 170-177), which it does holding no lock
ReadsSlot(p, inst, i) ==
  /\ pc[p] = "r_match" /\ man[p] = inst
  /\ determineResponseType(ctx[p].AcceptTypes) # "application/json"
  /\ i \in Renderers(p) /\ \A j \in Renderers(p) : i <= j
\* caller q is about to write it (line 210), holding the lock exclusively
WritesSlot(q, inst, i) ==
  pc[q] = "r_store" /\ man[q] = inst /\ loc[q].i = i /\ lock.writer = q

\* C19 (as claimed): the compiled-renderer slots are read with the lock held at
\* least in shared mode and written with it held exclusively, so in no
\* reachable state is one request about to read a slot that another request is
\* about to write.
C19_NoSlotReadDuringWrite ==
  \A p, q \in Procs, inst \in InstIds :
    \A i \in 1..Len(heap[inst].compiled) :
      ~(p # q /\ ReadsSlot(p, inst, i) /\ WritesSlot(q, inst, i))

\* ------------------------------------------------------------------ claims on names

\* the names that sanitizeFilename maps to the record of sv, other than sv
Siblings(sv) == { s \in Services \ {sv} : sanitizeFilename(s) = sanitizeFilename(sv) }

\* C20 (as claimed): for two names with one backing record, after an update of
\* the one succeeded (the record holds its rule set), a load of the other that
\* starts afterwards returns that rule set, also when the other name had been
\* loaded before the update; no two of the calls ran concurrently.
C20_SharedRecordNamesAgree ==
  \A p \in Procs :
    (/\ Done(p, "load") /\ ~stale[p] /\ lastUpd[svc[p]] = 0
     /\ files[sanitizeFilename(svc[p])].kind = "record"
     /\ \E l, u \in Procs \ {p} :
          /\ Done(l, "load") /\ svc[l] = svc[p] /\ stale[l]
          /\ Done(u, "update") /\ ret[u].status = "ok" /\ ~stale[u]
          /\ svc[u] \in Siblings(svc[p]) /\ lastUpd[svc[u]] = man[u]
     /\ \A q \in Procs : peers[q] = {}) =>
      /\ ret[p].status = "ok"
      /\ Persisted(ret[p].ver) = files[sanitizeFilename(svc[p])].ver

\* the positions at which a call holds the lock exclusively, and in shared mode
HoldsExclusive(p) == pc[p] \in {"l_store", "r_store", "u_write"}
HoldsShared(p) == pc[p] = "l_check"
\* the positions at which a call requests the lock
RequestsLock(p) == pc[p] \in {"l_rlock", "l_lock", "r_lock", "u_lock"}
InCall(p) == pc[p] \notin {"idle", "done"}

\* C21: under a fair scheduler no call deadlocks.  The lock is held by exactly
\* the calls between an acquisition and its release (so a call that requests it
\* does not hold it, and one writer excludes every other holder); it is free
\* whenever no call is in progress; a call that holds it gives it up, on error
\* returns as well; and every call eventually returns.
C21_NoDeadlock ==
  /\ [](/\ \A p \in Procs : lock.writer = p <=> HoldsExclusive(p)
        /\ lock.writer \in Procs \cup {0}
        /\ lock.readers = Cardinality({ p \in Procs : HoldsShared(p) })
        /\ lock.writer # 0 => lock.readers = 0
        /\ \A p \in Procs : RequestsLock(p) => ~HoldsExclusive(p) /\ ~HoldsShared(p)
        /\ (\A p \in Procs : ~InCall(p)) => LockFree)
  /\ \A p \in Procs : (HoldsExclusive(p) \/ HoldsShared(p)) ~> ~(HoldsExclusive(p) \/ HoldsShared(p))
  /\ \A p \in Procs : InCall(p) ~> pc[p] = "done"

\* an update holds the lock, another call waits for it, and a third call has
\* returned an error
C21_Witness ==
  \E p, q, r \in Procs :
    /\ RequestsLock(p)
    /\ pc[q] = "u_write" /\ lock.writer = q
    /\ pc[r] = "done" /\ ret[r].status = "error"

====
